---- MODULE Spec2Model ----
(***************************************************************************)
(* Model of the go-docuchat server (src/main.go, the deployed draft at     *)
(* lines 268-452): the two gin handlers handleChat and handleIngest, the   *)
(* temporary upload file they share on disk, and the external              *)
(* collaborators they call (OpenAI embeddings / chat completion, Qdrant    *)
(* collections / points).  Every blocking call of a handler is one step;   *)
(* requests interleave at those steps.                                     *)
(***************************************************************************)
EXTENDS Integers, Sequences, FiniteSets, TLC

\* ---------------------------------------------------------------- bounds
\* Number of requests the server accepts in one behaviour.
MaxRequests == 2
\* Number of handler goroutines gin runs at the same time.
MaxInFlight == 2

\* ------------------------------------------------------ program constants
collectionName == "pdf_collection"
VectorSize == 1536
Distance_Cosine == "Cosine"
SearchLimit == 3
StatusOK == 200
StatusInternalServerError == 500

systemPrompt == <<"You are George Barakat's AI Agent.">>

\* ------------------------------------------------------------ text helpers
\* Texts are sequences of tokens; " " is the whitespace token.
RECURSIVE Concat(_)
Concat(ss) == IF ss = <<>> THEN <<>> ELSE Head(ss) \o Concat(Tail(ss))

Contains(s, sub) ==
    \E i \in 1..(Len(s) - Len(sub) + 1) : SubSeq(s, i, i + Len(sub) - 1) = sub

IsBlank(s) == \A i \in 1..Len(s) : s[i] = " "

\* ------------------------------------------------------------------ inputs
NoFile == [missing |-> TRUE]
\* A file's bytes: whether pdf.Open can parse them, and the pages' plain texts.
Truncated == [parses |-> FALSE, empty |-> TRUE, pages |-> <<>>]
ParisPdf == [parses |-> TRUE, empty |-> FALSE,
             pages |-> << <<"The", "capital", "of", "France">>, <<"is", "Paris.">> >>]
BlankPdf == [parses |-> TRUE, empty |-> FALSE, pages |-> << <<>> >>]
Pdfs == {BlankPdf, ParisPdf}
FileNames == {"cv.pdf", "doc.pdf"}
\* A request without a file, a document with text and one whose pages hold
\* no text.  Several requests may upload the same one, under the same name.
Uploads == {NoFile,
            [Filename |-> "cv.pdf", pdf |-> ParisPdf],
            [Filename |-> "doc.pdf", pdf |-> BlankPdf]}

BadJSON == [badjson |-> TRUE]
Questions == {<<>>, <<" ">>, <<"What", "is", "the", "capital", "of", "France?">>}
ChatBodies == {BadJSON} \cup [Question : Questions]

\* A document ingested by an earlier run of the server.
OldText == <<"George", "knows", "Go.">>

\* --------------------------------------------------------------- variables
VARIABLES
    reqs,        \* goroutine -> its request: the handler's locals, position
                 \* and response
    nextId,      \* id of the next request gin accepts
    fs,          \* temp path -> the file stored there (or NoEntry)
    collection,  \* Qdrant: the collection's parameters (or NoCollection)
    points,      \* Qdrant: the points stored in the collection
    serving,     \* the server process is alive
    lastIngest   \* the ingestion that reported success last, and the chat
                 \* request (if any) that alone has run since then

vars == <<reqs, nextId, fs, collection, points, serving, lastIngest>>

Slots == 1..MaxInFlight
NoEntry == [exists |-> FALSE]
NoCollection == [exists |-> FALSE]
NoResponse == [status |-> 0]
None == [none |-> TRUE]

Idle == [rid |-> 0, kind |-> "none", pc |-> "idle", body |-> BadJSON, question |-> <<>>, upload |-> NoFile,
         fd |-> 0, content |-> <<>>, calls |-> <<>>,
         embedding |-> <<>>, prompt |-> <<>>, context |-> <<>>,
         resp |-> NoResponse, fault |-> "",
         \* what each call returned, whether or not the handler looks at it
         extracted |-> FALSE, embedErr |-> "", searchErr |-> "", hits |-> 0,
         first |-> None,
         createErr |-> "", upsertErr |-> ""]

InFlight == {r \in Slots : reqs[r].pc \notin {"idle", "done"}}
Done == {r \in Slots : reqs[r].pc = "done"}
Free == Slots \ InFlight
\* The ids of the requests whose handler has returned.
Returned == (1..(nextId - 1)) \ {reqs[r].rid : r \in InFlight}

\* ------------------------------------------------------ external services
EmbedErrors == {"UpstreamUnavailable", "UpstreamTransient"}
\* CreateEmbeddings returns an error, or a response whose Data list may be
\* empty (malformed upstream data).
EmbedOutcomes == EmbedErrors \cup {"ok", "EmptyData"}
ChatOutcomes == {"UpstreamUnavailable", "ok", "EmptyChoices"}

Embedding(text) == [dim |-> VectorSize, of |-> text]
\* What CreateEmbeddings leaves in resp.Data.
EmbeddingData(outcome, text) ==
    IF outcome = "ok" THEN <<Embedding(text)>> ELSE <<>>

\* Qdrant Collections.Create: an existing collection is reported as an
\* error and left as it is.
CreateResult(avail) ==
    IF ~avail THEN "StoreUnavailable"
    ELSE IF collection.exists THEN "AlreadyExists"
    ELSE "ok"
CreatedCollection(avail, size, distance) ==
    IF CreateResult(avail) = "ok"
    THEN [exists |-> TRUE, size |-> size, distance |-> distance]
    ELSE collection

\* Qdrant Points.Upsert.
UpsertResult(avail, point) ==
    IF ~avail THEN "StoreUnavailable"
    ELSE IF ~collection.exists THEN "CollectionMissing"
    ELSE IF point.vector.dim # collection.size THEN "StoreRejected"
    ELSE "ok"
UpsertedPoints(avail, point) ==
    IF UpsertResult(avail, point) = "ok" THEN points \cup {point} ELSE points

\* Qdrant Points.Search: up to `limit` stored points in the store's order.
Min(a, b) == IF a < b THEN a ELSE b
Rankings(limit) ==
    LET n == Min(limit, Cardinality(points))
    IN  {s \in [1..n -> points] : \A i, j \in 1..n : i # j => s[i] # s[j]}
SearchErr(avail) ==
    IF ~avail THEN "StoreUnavailable"
    ELSE IF ~collection.exists THEN "CollectionMissing"
    ELSE "nil"

\* ------------------------------------------------------------- file system
osCreate(files, path, r) ==
    IF files[path].exists
    THEN [files EXCEPT ![path].data = Truncated, ![path].by = r,
                       ![path].writers = @ \cup {r}]
    ELSE [files EXCEPT ![path] = [exists |-> TRUE, ino |-> r, data |-> Truncated,
                                  by |-> r, writers |-> {r}]]

\* io.Copy through the descriptor os.Create returned: it reaches the path
\* only while the path still names the descriptor's file.
ioCopy(files, path, r, fd, pdf) ==
    IF files[path].exists /\ files[path].ino = fd
    THEN [files EXCEPT ![path].data = pdf, ![path].by = r,
                       ![path].writers = @ \cup {r}]
    ELSE files

osRemove(files, path) == [files EXCEPT ![path] = NoEntry]

\* pdf.Open fails on a missing, truncated or unparseable file.
pdfOpenErr(files, path) ==
    \/ ~files[path].exists
    \/ ~files[path].data.parses

\* readPdf: the concatenation of the pages' plain text.
readPdf(files, path) ==
    IF pdfOpenErr(files, path) THEN <<>> ELSE Concat(files[path].data.pages)

\* filepath.Join(".", file.Filename)
tempPath(r) == reqs[r].upload.Filename

\* ------------------------------------------------------------- bookkeeping
\* lastIngest survives only steps of the one chat request that follows it.
Touch(r) ==
    lastIngest' = IF lastIngest # None /\ lastIngest.chat = reqs[r].rid
                  THEN lastIngest ELSE None

\* Goroutine r moves on to rec.  A returned handler's locals and response
\* are visible in the state its return produced and are gone afterwards.
Set(r, rec) ==
    reqs' = [q \in Slots |-> IF q = r THEN rec
                             ELSE IF reqs[q].pc = "done" THEN Idle ELSE reqs[q]]

\* c.JSON(status, body) followed by the handler's return.
Respond(rec, status, body) ==
    [rec EXCEPT !.pc = "done", !.resp = [status |-> status, body |-> body]]

Called(rec, name) == [rec EXCEPT !.calls = Append(@, name)]

\* A panic unwinds to the nearest recover: handleChat's own deferred
\* function, or the Recovery middleware gin.Default() installs, which
\* aborts with a bare 500.
Recovered(rec, what) ==
    IF rec.kind = "chat"
    THEN Respond([rec EXCEPT !.fault = what], StatusOK,
                 [answer |-> <<"Server Crash: ", what>>])
    ELSE [rec EXCEPT !.pc = "done", !.fault = what,
                     !.resp = [status |-> StatusInternalServerError]]

\* ------------------------------------------------------------- handleChat
CanAccept == serving /\ nextId <= MaxRequests /\ Free # {}
\* The goroutine that serves the next request.
NextSlot == CHOOSE r \in Free : \A q \in Free : r <= q

\* gin accepts POST /chat; c.BindJSON(&body).
AcceptChat(body) ==
    /\ CanAccept
    /\ LET rec == [Idle EXCEPT !.rid = nextId, !.kind = "chat", !.body = body]
       IN  /\ Set(NextSlot, IF body = BadJSON
                     THEN Respond(rec, StatusOK, [answer |-> <<"Error: Invalid JSON format.">>])
                     ELSE [rec EXCEPT !.pc = "embed", !.question = body.Question])
           /\ lastIngest' = IF lastIngest # None /\ lastIngest.chat = 0
                            THEN [lastIngest EXCEPT !.chat = nextId] ELSE None
    /\ nextId' = nextId + 1
    /\ UNCHANGED <<fs, collection, points, serving>>

\* Mutant: err is not looked at, as with the dropped results of handleIngest.
ChatEmbeddedUnchecked(rec, outcome) ==
    LET c == [Called(rec, "CreateEmbeddings") EXCEPT
                 !.embedErr = IF outcome \in EmbedErrors THEN outcome ELSE "nil"]
    IN  IF EmbeddingData(outcome, rec.question) = <<>>
        THEN Recovered(c, "index out of range")
        ELSE [c EXCEPT !.pc = "search",
                       !.embedding = EmbeddingData(outcome, rec.question)]

\* 1. EMBEDDING: an error ends the request with an answer; resp.Data[0] on
\* an empty Data list panics before Search is called.
ChatEmbedded(rec, outcome) ==
    LET c == [Called(rec, "CreateEmbeddings") EXCEPT
                 !.embedErr = IF outcome \in EmbedErrors THEN outcome ELSE "nil"]
    IN  IF outcome \in EmbedErrors
        THEN Respond(c, StatusOK, [answer |-> <<"OpenAI Embedding Error: ", outcome>>])
        ELSE IF EmbeddingData(outcome, rec.question) = <<>>
        THEN Recovered(c, "index out of range")
        ELSE [c EXCEPT !.pc = "search",
                       !.embedding = EmbeddingData(outcome, rec.question)]

ChatEmbed(r, outcome) ==
    /\ reqs[r].kind = "chat" /\ reqs[r].pc = "embed"
    /\ Set(r, ChatEmbedded(reqs[r], outcome))
    /\ Touch(r)
    /\ UNCHANGED <<nextId, fs, collection, points, serving>>

\* payloadText over the last result instead of the first one.
payloadTextLast(err, result) ==
    IF err = "nil" /\ Len(result) > 0
    THEN IF "text" \in DOMAIN result[Len(result)].payload
         THEN result[Len(result)].payload.text ELSE <<>>
    ELSE <<>>

\* payloadText: the first result's "text" payload, "" when the search
\* failed, returned nothing, or the payload has no text key.
payloadText(err, result) ==
    IF err = "nil" /\ Len(result) > 0
    THEN IF "text" \in DOMAIN result[1].payload
         THEN result[1].payload.text ELSE <<>>
    ELSE <<>>

\* searchResult.Result[0] as the store returned it, None when there is none.
firstResult(err, result) ==
    IF err = "nil" /\ Len(result) > 0 THEN result[1] ELSE None

fullPrompt(context, question) ==
    systemPrompt \o <<"\n\nContext from Resume: ">> \o context
                 \o <<"\n\nRecruiter Question: ">> \o question

\* 2. SEARCH, then the prompt is assembled whatever the search returned.
ChatSearched(rec, err, result) ==
    [Called(rec, "Search") EXCEPT
        !.pc = "chat", !.searchErr = err, !.hits = Len(result),
        !.first = firstResult(err, result),
        !.context = payloadText(err, result),
        !.prompt = fullPrompt(payloadText(err, result), rec.question)]

ChatSearch(r, avail) ==
    /\ reqs[r].kind = "chat" /\ reqs[r].pc = "search"
    /\ \E result \in (IF SearchErr(avail) = "nil" THEN Rankings(SearchLimit) ELSE {<<>>}) :
           Set(r, ChatSearched(reqs[r], SearchErr(avail), result))
    /\ Touch(r)
    /\ UNCHANGED <<nextId, fs, collection, points, serving>>

\* 3. CHAT: chatResp.Choices[0] on an empty Choices list panics.
ChatCompleted(rec, outcome) ==
    LET c == Called(rec, "CreateChatCompletion")
    IN  IF outcome = "ok"
        THEN Respond(c, StatusOK, [answer |-> <<"generated">>])
        ELSE IF outcome = "EmptyChoices"
        THEN Recovered(c, "index out of range")
        ELSE Respond(c, StatusOK, [answer |-> <<"OpenAI Chat Error: ", outcome>>])

ChatCompletion(r, outcome) ==
    /\ reqs[r].kind = "chat" /\ reqs[r].pc = "chat"
    /\ Set(r, ChatCompleted(reqs[r], outcome))
    /\ Touch(r)
    /\ UNCHANGED <<nextId, fs, collection, points, serving>>

\* ------------------------------------------------------------ handleIngest
ErrorBody(message) == [status |-> "error", message |-> message]
SuccessBody == [status |-> "success", message |-> <<"File processed!">>]

\* gin accepts POST /ingest; c.FormFile("file").
AcceptIngest(upload) ==
    /\ CanAccept
    /\ LET rec == [Idle EXCEPT !.rid = nextId, !.kind = "ingest", !.upload = upload]
       IN  Set(NextSlot, IF upload = NoFile
                       THEN Respond(rec, StatusOK, ErrorBody(<<"No file uploaded">>))
                       ELSE [rec EXCEPT !.pc = "save"])
    /\ nextId' = nextId + 1
    /\ lastIngest' = None
    /\ UNCHANGED <<fs, collection, points, serving>>

\* c.SaveUploadedFile, first half: os.Create(tempPath).
IngestSave(r) ==
    /\ reqs[r].kind = "ingest" /\ reqs[r].pc = "save"
    /\ fs' = osCreate(fs, tempPath(r), reqs[r].rid)
    /\ Set(r, [reqs[r] EXCEPT !.pc = "copy", !.fd = fs'[tempPath(r)].ino])
    /\ Touch(r)
    /\ UNCHANGED <<nextId, collection, points, serving>>

\* c.SaveUploadedFile, second half: io.Copy into the created file; a failed
\* copy leaves the file truncated and its error is dropped.  Then
\* defer os.Remove(tempPath) is registered.
IngestCopy(r, ok) ==
    /\ reqs[r].kind = "ingest" /\ reqs[r].pc = "copy"
    /\ fs' = IF ok THEN ioCopy(fs, tempPath(r), reqs[r].rid, reqs[r].fd, reqs[r].upload.pdf)
                   ELSE fs
    /\ Set(r, [reqs[r] EXCEPT !.pc = "read"])
    /\ Touch(r)
    /\ UNCHANGED <<nextId, collection, points, serving>>

\* Mutant: the defer is missing, nothing is removed.
deferredRemoveMissing(files, path) == files

\* The deferred os.Remove(tempPath) runs on every return and on a panic.
deferredRemove(files, path) == osRemove(files, path)

\* content, err := readPdf(tempPath)
IngestRead(r) ==
    /\ reqs[r].kind = "ingest" /\ reqs[r].pc = "read"
    /\ IF pdfOpenErr(fs, tempPath(r))
       THEN /\ Set(r, Respond(reqs[r], StatusOK, ErrorBody(<<"PDF Read Error">>)))
            /\ fs' = deferredRemove(fs, tempPath(r))
       ELSE /\ Set(r, [reqs[r] EXCEPT !.pc = "embed", !.extracted = TRUE,
                                      !.content = readPdf(fs, tempPath(r))])
            /\ fs' = fs
    /\ Touch(r)
    /\ UNCHANGED <<nextId, collection, points, serving>>

\* aiClient.CreateEmbeddings on the extracted content, whatever it is.
IngestEmbedded(rec, outcome) ==
    LET c == [Called(rec, "CreateEmbeddings") EXCEPT
                 !.embedErr = IF outcome \in EmbedErrors THEN outcome ELSE "nil"]
    IN  IF outcome \in EmbedErrors
        THEN Respond(c, StatusOK, ErrorBody(<<"Embedding Error: ", outcome>>))
        ELSE [c EXCEPT !.pc = "create",
                       !.embedding = EmbeddingData(outcome, rec.content)]

IngestEmbed(r, outcome) ==
    /\ reqs[r].kind = "ingest" /\ reqs[r].pc = "embed"
    /\ Set(r, IngestEmbedded(reqs[r], outcome))
    /\ fs' = IF outcome \in EmbedErrors THEN deferredRemove(fs, tempPath(r)) ELSE fs
    /\ Touch(r)
    /\ UNCHANGED <<nextId, collection, points, serving>>

\* Mutant: any error of Create, "already exists" included, fails the request.
IngestCreatedStrict(rec, result) ==
    LET c == [Called(rec, "Create") EXCEPT !.createErr = result]
    IN  IF result # "ok"
        THEN Respond(c, StatusOK, ErrorBody(<<"Collection Error: ", result>>))
        ELSE IF rec.embedding = <<>>
        THEN Recovered(c, "index out of range")
        ELSE [c EXCEPT !.pc = "upsert"]

\* collectionsClient.Create: the result is dropped.  The Upsert request is
\* built next, and resp.Data[0] on an empty Data list panics there.
IngestCreated(rec, result) ==
    LET c == [Called(rec, "Create") EXCEPT !.createErr = result]
    IN  IF rec.embedding = <<>>
        THEN Recovered(c, "index out of range")
        ELSE [c EXCEPT !.pc = "upsert"]

IngestCreate(r, avail) ==
    /\ reqs[r].kind = "ingest" /\ reqs[r].pc = "create"
    /\ collection' = CreatedCollection(avail, VectorSize, Distance_Cosine)
    /\ Set(r, IngestCreated(reqs[r], CreateResult(avail)))
    /\ fs' = IF reqs'[r].pc = "done" THEN deferredRemove(fs, tempPath(r)) ELSE fs
    /\ Touch(r)
    /\ UNCHANGED <<nextId, points, serving>>

\* uuid.New(): an identifier no stored point carries.
uuidNew == CHOOSE id \in 0..Cardinality(points) : \A pt \in points : pt.id # id

\* The point handleIngest upserts: a fresh uuid, the embedding, the text.
NewPoint(rec, id) ==
    [id |-> id, vector |-> rec.embedding[1], payload |-> [text |-> rec.content]]

\* qdrantClient.Upsert: the result is dropped and success is reported.
IngestUpserted(rec, result) ==
    Respond([Called(rec, "Upsert") EXCEPT !.upsertErr = result], StatusOK, SuccessBody)

IngestUpsert(r, avail) ==
    /\ reqs[r].kind = "ingest" /\ reqs[r].pc = "upsert"
    /\ LET point == NewPoint(reqs[r], uuidNew)
       IN  /\ points' = UpsertedPoints(avail, point)
           /\ Set(r, IngestUpserted(reqs[r], UpsertResult(avail, point)))
    /\ fs' = deferredRemove(fs, tempPath(r))
    /\ lastIngest' = IF reqs'[r].resp.body = SuccessBody
                     THEN [text |-> reqs[r].content, chat |-> 0]
                     ELSE None
    /\ UNCHANGED <<nextId, collection, serving>>

\* --------------------------------------------------------------- the system
\* The store outlives the server: it may hold no collection, an empty
\* collection, or a collection with a chunk ingested by an earlier run and a
\* point of another writer whose payload has no "text" key.
OldPoint == [id |-> 0, vector |-> Embedding(OldText), payload |-> [text |-> OldText]]
BarePoint == [id |-> 1, vector |-> Embedding(OldText), payload |-> [source |-> <<"cv.pdf">>]]
TheCollection == [exists |-> TRUE, size |-> VectorSize, distance |-> Distance_Cosine]

Init ==
    /\ reqs = [r \in Slots |-> Idle]
    /\ nextId = 1
    /\ fs = [p \in FileNames |-> NoEntry]
    /\ \E st \in {<<NoCollection, {}>>, <<TheCollection, {}>>,
                    <<TheCollection, {OldPoint, BarePoint}>>} :
           collection = st[1] /\ points = st[2]
    /\ serving = TRUE
    /\ lastIngest = None

Next ==
    \/ \E body \in ChatBodies : AcceptChat(body)
    \/ \E upload \in Uploads : AcceptIngest(upload)
    \/ \E r \in Slots, outcome \in EmbedOutcomes : ChatEmbed(r, outcome)
    \/ \E r \in Slots, avail \in BOOLEAN : ChatSearch(r, avail)
    \/ \E r \in Slots, outcome \in ChatOutcomes : ChatCompletion(r, outcome)
    \/ \E r \in Slots : IngestSave(r)
    \/ \E r \in Slots, ok \in BOOLEAN : IngestCopy(r, ok)
    \/ \E r \in Slots : IngestRead(r)
    \/ \E r \in Slots, outcome \in EmbedOutcomes : IngestEmbed(r, outcome)
    \/ \E r \in Slots, avail \in BOOLEAN : IngestCreate(r, avail)
    \/ \E r \in Slots, avail \in BOOLEAN : IngestUpsert(r, avail)

Spec == Init /\ [][Next]_vars

TypeOK ==
    /\ nextId \in 1..(MaxRequests + 1)
    /\ serving \in BOOLEAN
    /\ \A r \in Slots : reqs[r].pc \in {"idle", "embed", "search", "chat", "save",
                                      "copy", "read", "create", "upsert", "done"}

\* ------------------------------------------------------------------ claims
Chats == {r \in Slots : reqs[r].kind = "chat"}
Ingests == {r \in Slots : reqs[r].kind = "ingest"}
HasCalled(r, name) == \E i \in 1..Len(reqs[r].calls) : reqs[r].calls[i] = name
Structured(resp) == "body" \in DOMAIN resp
IsAnswer(resp) ==
    Structured(resp) /\ resp.status = StatusOK /\ "answer" \in DOMAIN resp.body
\* A typed failure, in either of the shapes the handlers give an error.
IsFailure(resp, kind) ==
    /\ Structured(resp)
    /\ \/ "error" \in DOMAIN resp.body /\ resp.body.error = kind
       \/ /\ "status" \in DOMAIN resp.body /\ resp.body.status = "error"
          /\ resp.body.message = <<kind>>

\* C1: a chat request whose question is empty or only whitespace makes no
\* embedding, search or completion call, and is answered InvalidQuery.
C1_BlankQuestionRejected ==
    \A r \in Chats :
        (reqs[r].body # BadJSON /\ IsBlank(reqs[r].body.Question)) =>
            /\ reqs[r].calls = <<>>
            /\ reqs[r].pc = "done" => IsFailure(reqs[r].resp, "InvalidQuery")

\* C2: a chat request whose search reports a missing collection, or returns
\* no result, gets an answer without any call to CreateChatCompletion.
C2_NoKnowledgeNoGeneration ==
    \A r \in Chats :
        (\/ reqs[r].searchErr = "CollectionMissing"
         \/ reqs[r].searchErr = "nil" /\ reqs[r].hits = 0) =>
            /\ ~HasCalled(r, "CreateChatCompletion")
            /\ reqs[r].pc = "done" => IsAnswer(reqs[r].resp)

\* C3: once handleIngest has returned, on whatever path, no file the
\* request created or wrote is left at a temporary path.
C3_TempFileRemoved ==
    \A p \in FileNames : fs[p].exists => fs[p].writers \cap Returned = {}

\* C3 witness: an ingestion that saved its upload has left handleIngest by
\* a panic, and its temporary path is empty.
C3_Witness ==
    \E r \in Ingests : /\ reqs[r].pc = "done" /\ reqs[r].fd # 0
                        /\ reqs[r].fault # ""
                        /\ ~fs[tempPath(r)].exists

\* C4: the file an ingestion is about to extract is the one it saved itself:
\* it is still there and its bytes were written by this request.
C4_OwnTempFile ==
    \A r \in Ingests :
        reqs[r].pc = "read" =>
            /\ fs[tempPath(r)].exists
            /\ fs[tempPath(r)].by = reqs[r].rid

\* C5: handleIngest answers success only if creating the collection did not
\* fail (other than by "already exists") and the upsert stored the chunk.
C5_SuccessMeansStored ==
    \A r \in Ingests :
        (reqs[r].pc = "done" /\ Structured(reqs[r].resp)
            /\ reqs[r].resp.body = SuccessBody) =>
            /\ reqs[r].createErr \in {"ok", "AlreadyExists"}
            /\ reqs[r].upsertErr = "ok"

\* C6: a chat request whose embedding call fails ends with an ordinary answer
\* and not a fault, has made no other call, and its steps change neither the
\* store, nor the disk, nor the server, so later requests find what they
\* would have found without it.
C6_EmbedFailureDegrades ==
    /\ [](\A r \in Chats :
            reqs[r].embedErr \in EmbedErrors =>
                /\ reqs[r].pc = "done"
                /\ IsAnswer(reqs[r].resp)
                /\ reqs[r].fault = ""
                /\ reqs[r].calls = <<"CreateEmbeddings">>
                /\ serving)
    /\ [][\A r \in Slots :
            (/\ reqs[r].kind = "chat" /\ reqs[r].pc = "embed"
             /\ reqs'[r].embedErr \in EmbedErrors)
                => UNCHANGED <<fs, collection, points, serving>>]_vars

\* C6 witness: a chat request has ended on a failed embedding call while
\* another request is being served.
C6_Witness ==
    \E r \in Chats :
        /\ reqs[r].pc = "done" /\ reqs[r].embedErr \in EmbedErrors
        /\ InFlight # {}

\* C7: the server stays up, and every request that ended on a fault (a panic
\* on malformed upstream data) or without an uploaded file has a structured
\* response.
C7_FaultsIsolated ==
    /\ serving
    /\ \A r \in Done :
          (reqs[r].fault # "" \/ (reqs[r].kind = "ingest" /\ reqs[r].upload = NoFile))
              => Structured(reqs[r].resp)

\* C8: an ingestion whose extracted text is empty makes no embedding, create
\* or upsert call and ends as EmptyDocument.
C8_EmptyDocumentRejected ==
    \A r \in Ingests :
        (reqs[r].extracted /\ reqs[r].content = <<>>) =>
            /\ reqs[r].calls = <<>>
            /\ reqs[r].pc = "done" => IsFailure(reqs[r].resp, "EmptyDocument")

\* C9: the collection, once it exists, keeps size 1536 and cosine distance;
\* an ingestion that has an embedding and finds the collection already
\* existing is not failed for it: it goes on to the upsert and reports
\* success.
C9_CreateIdempotent ==
    /\ collection.exists => collection = TheCollection
    /\ \A r \in Ingests :
          (reqs[r].createErr = "AlreadyExists" /\ reqs[r].embedding # <<>>) =>
              \/ reqs[r].pc = "upsert"
              \/ /\ reqs[r].pc = "done"
                 /\ HasCalled(r, "Upsert")
                 /\ reqs[r].resp.body = SuccessBody

\* C9 witness: the second ingestion of the run found the collection the
\* first one created, and its chunk is stored next to the first one's.
C9_Witness ==
    \E r \in Ingests :
        /\ reqs[r].pc = "done" /\ reqs[r].rid = 2
        /\ reqs[r].createErr = "AlreadyExists" /\ reqs[r].upsertErr = "ok"
        /\ OldPoint \notin points
        /\ Cardinality(points) = 2

\* C10: a chat request that alone follows an ingestion that reported success
\* for a non-empty text, with no chunk of another document in the store and
\* with its own embedding and search calls succeeding, has that text in its
\* context and calls CreateChatCompletion with a prompt that contains the
\* context and the question.
C10_IngestThenQuery ==
    \A r \in Chats :
        (/\ reqs[r].pc = "done"
         /\ lastIngest # None /\ lastIngest.chat = reqs[r].rid
         /\ lastIngest.text # <<>>
         /\ ~IsBlank(reqs[r].question)
         /\ reqs[r].embedErr = "nil" /\ reqs[r].embedding # <<>>
         /\ reqs[r].searchErr = "nil"
         /\ \A pt \in points : /\ "text" \in DOMAIN pt.payload
                                /\ pt.payload.text = lastIngest.text) =>
            /\ Contains(reqs[r].context, lastIngest.text)
            /\ HasCalled(r, "CreateChatCompletion")
            /\ Contains(reqs[r].prompt, reqs[r].context)
            /\ Contains(reqs[r].prompt, reqs[r].question)

\* C11: a chat request that ends with a generated answer carries in the same
\* response a context field equal to the context text put into the prompt.
C11_ContextReturned ==
    \A r \in Chats :
        (/\ reqs[r].pc = "done" /\ reqs[r].fault = ""
         /\ HasCalled(r, "CreateChatCompletion")
         /\ IsAnswer(reqs[r].resp)
         /\ reqs[r].resp.body.answer = <<"generated">>) =>
            /\ "context" \in DOMAIN reqs[r].resp.body
            /\ reqs[r].resp.body.context = reqs[r].context
            /\ reqs[r].prompt = fullPrompt(reqs[r].context, reqs[r].question)

\* A step keeps every stored point as it is; a step of a chat request, and
\* the acceptance of any request, stores nothing.
AppendOnlyStep ==
    /\ points \subseteq points'
    /\ \A r \in Chats \cap InFlight : reqs'[r] # reqs[r] => points' = points
    /\ nextId' # nextId => points' = points

\* The upsert step of an ingestion that reports success stores exactly one
\* point, under an identifier no stored point carried, with the extracted
\* text under the payload's text key.
SuccessAddsOneStep ==
    \A r \in Ingests :
        (/\ reqs[r].pc = "upsert" /\ reqs'[r].pc = "done"
         /\ reqs'[r].resp.body = SuccessBody) =>
            \E pt \in points' :
                /\ pt \notin points
                /\ points' = points \cup {pt}
                /\ \A old \in points : old.id # pt.id
                /\ pt.payload = [text |-> reqs[r].content]

\* C12: the stored chunks are append-only: no step changes or removes a
\* stored point, chat requests store nothing, and each ingestion that
\* reports success has added exactly one fresh point holding its text.
C12_AppendOnly == [][AppendOnlyStep /\ SuccessAddsOneStep]_vars

IngestStages == <<"CreateEmbeddings", "Create", "Upsert">>

\* C13: an ingestion calls embed, ensure collection and upsert in this order,
\* each at most once, and only after the text was extracted; after a failed
\* stage it calls nothing more, so no upsert follows a failed extraction, a
\* failed embedding or a failed ensure.
C13_StagesInOrder ==
    \A r \in Ingests :
        /\ Len(reqs[r].calls) <= Len(IngestStages)
        /\ reqs[r].calls = SubSeq(IngestStages, 1, Len(reqs[r].calls))
        /\ ~reqs[r].extracted => reqs[r].calls = <<>>
        /\ reqs[r].embedErr \in EmbedErrors => reqs[r].calls = <<"CreateEmbeddings">>
        /\ reqs[r].createErr \notin {"", "ok", "AlreadyExists"} => ~HasCalled(r, "Upsert")

\* C14: once the search has returned, the context is the text payload of the
\* first result the store returned, whatever the number of results (at most
\* SearchLimit); it is empty when the search failed, returned nothing, or the
\* first result's payload has no text key; the prompt is built from it.
C14_ContextIsFirstResult ==
    \A r \in Chats :
        HasCalled(r, "Search") =>
            /\ reqs[r].hits <= SearchLimit
            /\ reqs[r].first # None <=> (reqs[r].searchErr = "nil" /\ reqs[r].hits > 0)
            /\ reqs[r].first # None => reqs[r].first \in points
            /\ reqs[r].context =
                   IF reqs[r].first # None /\ "text" \in DOMAIN reqs[r].first.payload
                   THEN reqs[r].first.payload.text
                   ELSE <<>>
            /\ reqs[r].prompt = fullPrompt(reqs[r].context, reqs[r].question)

\* C14 witness: two searches over the same two stored points that the store
\* ranked differently: one has the chunk with a text first and that text as
\* its context, the other has the point without a text key first and an
\* empty context although the chunk with a text was returned second.
C14_Witness ==
    \E r, q \in Chats :
        /\ HasCalled(r, "Search") /\ HasCalled(q, "Search")
        /\ reqs[r].hits = 2 /\ reqs[q].hits = 2
        /\ reqs[r].first = OldPoint
        /\ reqs[r].context = OldText
        /\ reqs[q].first = BarePoint
        /\ reqs[q].context = <<>>
        /\ points = {OldPoint, BarePoint}

====
